---------------------------- MODULE Spec2Model ----------------------------
(***************************************************************************)
(* Model of the slideshow core of panzoom (src/panzoom/slideshow.py):      *)
(* SlideshowGenerator.prepare_images, _build_filter_complex,               *)
(* _parse_ffmpeg_progress, generate, cancel and estimate_duration, with    *)
(* the configuration dataclasses of src/panzoom/config.py.                 *)
(*                                                                         *)
(* Numbers.  Durations, frame rates and times are integers (whole seconds, *)
(* whole frames per second); on such values the float arithmetic of the    *)
(* program is exact.  Quotients (percent, ETA) are exact rationals <<n,d>> *)
(* in lowest terms.                                                        *)
(***************************************************************************)
EXTENDS Integers, Sequences, FiniteSets, TLC

\* ------------------------------------------------------------------ bounds
\* Longest image list handed to prepare_images / found by find_images.
MaxImages == 3
\* Largest duration-per-image and crossfade drawn for the graph builder.
MaxDuration == 3
MaxCrossfade == 4
\* Lines the engine writes to its standard output during one run.
MaxLines == 2
\* generate() invocations on one generator.
MaxCalls == 2
\* Chunks a pipe holds before a write to it blocks, and writes an engine
\* makes in the runs where the pipes are bounded.
PipeCapacity == 1
MaxWrites == 3

\* Image paths, named by their rank in lexicographic order.
Paths == 1 .. 4

\* ------------------------------------------------------------ config.py
\* config.TRANSITIONS: the keys of the table.
TRANSITIONS ==
    { "fade", "fadeblack", "fadewhite", "wipeleft", "wiperight", "wipeup",
      "wipedown", "slideleft", "slideright", "slideup", "slidedown",
      "smoothleft", "smoothright", "circlecrop", "circleclose", "circleopen",
      "dissolve", "pixelize", "radial", "hblur", "hlslice", "vlslice",
      "zoomin", "squeezeh", "squeezev" }

\* The draws of random.choice(transition_list) that the model explores.
SampledTransitions == { "fade", "wipeleft" }

\* VideoConfig(): the dataclass defaults.
DefaultVideoConfig ==
    [ duration |-> 10, crossfade |-> 2, fps |-> 60, width |-> 1920,
      height |-> 1080, zoom_direction |-> "alternate",
      pan_direction |-> "alternate", transition |-> "fade",
      shuffle |-> FALSE, reverse |-> FALSE, crf |-> 18, preset |-> "slow" ]

\* The five fields generate() saves and overwrites in preview mode.
PreviewFields == { "width", "height", "fps", "crf", "preset" }

\* The values lines 363-367 assign.
PreviewValues ==
    [ width |-> 640, height |-> 360, fps |-> 15, crf |-> 35,
      preset |-> "ultrafast" ]

\* Optional attachments: None, or the dataclass fields the core reads.
NoWatermark == [ attached |-> FALSE, enabled |-> FALSE, on_disk |-> FALSE,
                 position |-> "bottom-right" ]
NoTitle == [ attached |-> FALSE, enabled |-> FALSE, duration |-> 0 ]

\* ProgressInfo(): the dataclass defaults.
InitialProgressInfo ==
    [ frame |-> 0, fps |-> 0, time_encoded |-> 0, speed |-> 0,
      percent |-> <<0, 1>>, eta_seconds |-> <<0, 1>> ]

\* --------------------------------------------------------------- helpers
Abs(x) == IF x < 0 THEN -x ELSE x

RECURSIVE Gcd(_, _)
Gcd(a, b) == IF b = 0 THEN a ELSE Gcd(b, a % b)

\* The rational n/d (d # 0) in lowest terms with a positive denominator.
Rat(n, d) ==
    LET s == IF d < 0 THEN -1 ELSE 1
        g == Gcd(Abs(n), Abs(d))
    IN  << (s * n) \div g, (s * d) \div g >>

RatLeq(p, q) == p[1] * q[2] <= q[1] * p[2]
RatMin(p, q) == IF RatLeq(p, q) THEN p ELSE q

Range(s) == { s[i] : i \in 1 .. Len(s) }
Reverse(s) == [ i \in 1 .. Len(s) |-> s[Len(s) + 1 - i] ]

\* The lists find_images returns: sorted, duplicate-free.
SortedLists ==
    { s \in UNION { [ 1 .. n -> Paths ] : n \in 0 .. MaxImages } :
        \A i \in 1 .. Len(s) - 1 : s[i] < s[i + 1] }

\* The orders random.shuffle can leave a list in.
Shuffles(s) ==
    { t \in [ 1 .. Len(s) -> Range(s) ] :
        \E f \in [ 1 .. Len(s) -> 1 .. Len(s) ] :
            /\ \A i, j \in 1 .. Len(s) : i # j => f[i] # f[j]
            /\ \A i \in 1 .. Len(s) : t[i] = s[f[i]] }


\* ------------------------------------------------- prepare_images (pure)
\* Ordering without the elif branch of lines 83-84.
OrderingReverseIgnored(image_paths, cfg) ==
    IF cfg.shuffle THEN Shuffles(image_paths) ELSE { image_paths }

\* Lines 81-84: the orders the ordering policy can produce.
Ordering(image_paths, cfg) ==
    IF cfg.shuffle THEN Shuffles(image_paths)
    ELSE IF cfg.reverse THEN { Reverse(image_paths) }
    ELSE { image_paths }

\* EnumIndex counting from 1 (enumerate(image_paths, 1)).
EnumIndexFromOne(pos) == pos

\* enumerate(): the index of the element at (1-based) position pos.
EnumIndex(pos) == pos - 1

\* ZoomChoices with the parity test of the alternate policy inverted.
ZoomChoicesOddIn(cfg, i) ==
    IF cfg.zoom_direction = "in" THEN { TRUE }
    ELSE IF cfg.zoom_direction = "out" THEN { FALSE }
    ELSE IF cfg.zoom_direction = "random" THEN BOOLEAN
    ELSE { i % 2 = 1 }

\* Lines 92-99: the values zoom_in can take for the image with index i.
ZoomChoices(cfg, i) ==
    IF cfg.zoom_direction = "in" THEN { TRUE }
    ELSE IF cfg.zoom_direction = "out" THEN { FALSE }
    ELSE IF cfg.zoom_direction = "random" THEN BOOLEAN
    ELSE { i % 2 = 0 }

\* Lines 102-109: the values pan_left_to_right can take for index i.
PanChoices(cfg, i) ==
    IF cfg.pan_direction = "left" THEN { TRUE }
    ELSE IF cfg.pan_direction = "right" THEN { FALSE }
    ELSE IF cfg.pan_direction = "random" THEN BOOLEAN
    ELSE { i % 2 = 0 }

\* Lines 112-115: the values transition can take.
TransitionChoices(cfg) ==
    IF cfg.transition = "random" THEN SampledTransitions
    ELSE { cfg.transition }

\* Lines 89-123: the lists the loop can build from the ordered paths.
ImageLists(ordered, cfg) ==
    LET n == Len(ordered)
    IN  { [ pos \in 1 .. n |->
              [ path |-> ordered[pos], index |-> EnumIndex(pos),
                zoom_in |-> z[pos], pan_left_to_right |-> p[pos],
                transition |-> t[pos] ] ] :
          z \in { f \in [ 1 .. n -> BOOLEAN ] :
                    \A pos \in 1 .. n : f[pos] \in ZoomChoices(cfg, EnumIndex(pos)) },
          p \in { f \in [ 1 .. n -> BOOLEAN ] :
                    \A pos \in 1 .. n : f[pos] \in PanChoices(cfg, EnumIndex(pos)) },
          t \in [ 1 .. n -> TransitionChoices(cfg) ] }

\* ----------------------------------------- _build_filter_complex (pure)
Label(name, idx) == [ name |-> name, idx |-> idx ]
\* "[k:v]": the video stream of input k of the command.
InputRef(k) == Label("input", k)
\* A label that carries no index ("[vout]", "[wm]", "[vfinal]", "[v]").
Tag(name) == Label(name, -1)

\* Lines 143-145.
InputOffset(ttl, with_title) ==
    IF with_title /\ ttl.attached /\ ttl.enabled THEN 1 ELSE 0

\* Line 135, for whole seconds and whole frame rates.
NumFrames(cfg) ==
    LET f == cfg.duration * cfg.fps IN IF f < 2 THEN 2 ELSE f

\* Lines 148-174: the scale/zoompan/format clause of one image.
ImageClause(img, cfg, input_offset) ==
    [ kind |-> "zoompan",
      ins  |-> << InputRef(img.index + input_offset) >>,
      out  |-> Label("v", img.index),
      params |-> [ zoom_in |-> img.zoom_in,
                   pan_left_to_right |-> img.pan_left_to_right,
                   d |-> NumFrames(cfg), width |-> cfg.width,
                   height |-> cfg.height, fps |-> cfg.fps ] ]

\* XfadeOffset without the accumulation of line 192.
XfadeOffsetNotAccumulated(cfg, i) == cfg.duration - cfg.crossfade

\* Lines 179 and 192: the value of t when the i-th cross-fade is emitted.
RECURSIVE XfadeOffset(_, _)
XfadeOffset(cfg, i) ==
    IF i = 1 THEN cfg.duration - cfg.crossfade
    ELSE XfadeOffset(cfg, i - 1) + (cfg.duration - cfg.crossfade)

\* ValidTransition without the membership test of line 183.
ValidTransitionUnchecked(trans) == trans

\* Lines 182-185.
ValidTransition(trans) == IF trans \notin TRANSITIONS THEN "fade" ELSE trans

\* Lines 181-191: the cross-fade clause that joins image i (i >= 1).
XfadeClause(imgs, cfg, i) ==
    [ kind |-> "xfade",
      ins  |-> << (IF i = 1 THEN Label("v", 0) ELSE Label("x", i - 1)),
                  Label("v", i) >>,
      out  |-> Label("x", i),
      params |-> [ transition |-> ValidTransition(imgs[i + 1].transition),
                   duration |-> cfg.crossfade,
                   offset |-> XfadeOffset(cfg, i) ] ]

\* ChainClauses entering the chain branch for a single image as well.
ChainClausesFromOneImage(imgs, cfg) ==
    LET n == Len(imgs)
    IN  IF n >= 1
        THEN [ i \in 1 .. n - 1 |-> XfadeClause(imgs, cfg, i) ]
             \o << [ kind |-> "format", ins |-> << Label("x", n - 1) >>,
                     out |-> Tag("vout"), params |-> [ none |-> TRUE ] ] >>
        ELSE << [ kind |-> "format", ins |-> << Label("v", 0) >>,
                  out |-> Tag("vout"), params |-> [ none |-> TRUE ] ] >>

\* Lines 177-199: the chain and the clause labelled vout.
ChainClauses(imgs, cfg) ==
    LET n == Len(imgs)
    IN  IF n > 1
        THEN [ i \in 1 .. n - 1 |-> XfadeClause(imgs, cfg, i) ]
             \o << [ kind |-> "format", ins |-> << Label("x", n - 1) >>,
                     out |-> Tag("vout"), params |-> [ none |-> TRUE ] ] >>
        ELSE << [ kind |-> "format", ins |-> << Label("v", 0) >>,
                  out |-> Tag("vout"), params |-> [ none |-> TRUE ] ] >>

\* Lines 205-212.
WatermarkPositions ==
    { "top-left", "top-right", "bottom-left", "bottom-right", "center" }
WatermarkPos(wm) ==
    IF wm.position \in WatermarkPositions THEN wm.position ELSE "bottom-right"

\* WatermarkInput without the slot of the audio input.
WatermarkInputAtAudio(n, input_offset) == n + input_offset

\* Line 215.
WatermarkInput(n, input_offset) == n + input_offset + 1

\* Lines 202-224.
WatermarkClauses(imgs, wm, input_offset, with_watermark) ==
    IF with_watermark /\ wm.attached /\ wm.enabled
    THEN << [ kind |-> "wmscale",
              ins |-> << InputRef(WatermarkInput(Len(imgs), input_offset)) >>,
              out |-> Tag("wm"), params |-> [ none |-> TRUE ] ],
            [ kind |-> "overlay", ins |-> << Tag("vout"), Tag("wm") >>,
              out |-> Tag("vfinal"),
              params |-> [ position |-> WatermarkPos(wm) ] ] >>
    ELSE << >>

\* RelabelLast leaving the labels as they were appended.
RelabelNothing(filters) == filters

\* Line 232: the last clause's output label becomes [v].
RelabelLast(filters) ==
    [ filters EXCEPT ![Len(filters)].out = Tag("v") ]

\* _build_filter_complex: the clauses, in the order they are joined by ";".
BuildFilterComplex(imgs, cfg, wm, ttl, with_watermark, with_title) ==
    LET input_offset == InputOffset(ttl, with_title)
    IN  RelabelLast(
            [ pos \in 1 .. Len(imgs) |->
                ImageClause(imgs[pos], cfg, input_offset) ]
            \o ChainClauses(imgs, cfg)
            \o WatermarkClauses(imgs, wm, input_offset, with_watermark))

\* -------------------------------------------- estimate_duration (pure)
\* Line 493.
ClampAtZero(total) == IF total < 0 THEN 0 ELSE total

\* EstimateDuration adding the title duration without the enabled test.
EstimateDurationAnyTitle(imgs, cfg, ttl) ==
    IF Len(imgs) = 0 THEN 0
    ELSE LET n == Len(imgs)
             total == cfg.duration * n - cfg.crossfade * (n - 1)
         IN  ClampAtZero(IF ttl.attached
                         THEN total + ttl.duration ELSE total)

\* Lines 483-493.
EstimateDuration(imgs, cfg, ttl) ==
    IF Len(imgs) = 0 THEN 0
    ELSE LET n == Len(imgs)
             total == cfg.duration * n - cfg.crossfade * (n - 1)
         IN  ClampAtZero(IF ttl.attached /\ ttl.enabled
                         THEN total + ttl.duration ELSE total)

\* ---------------------------------------- _parse_ffmpeg_progress (pure)
\* One key of a line of engine output.  k = "absent": the key is not on the
\* line; "num": the key is there and its pattern matches a well-formed
\* number (v); "nomatch": the key is there and its pattern does not match
\* (fps=N/A); "bad": the pattern matches text float() rejects (1.2.3, a lone
\* dot).  A time value is <<hours, minutes, seconds>>.
Tok(k, v) == [ k |-> k, v |-> v ]

FrameTokens == { Tok("absent", 0), Tok("num", 120), Tok("nomatch", 0) }
FpsTokens   == { Tok("absent", 0), Tok("num", 0), Tok("num", 30), Tok("bad", 0) }
TimeTokens  == { Tok("absent", <<0, 0, 0>>), Tok("num", <<0, 0, 4>>),
                 Tok("num", <<0, 0, 50>>) }
SpeedTokens == { Tok("absent", 0), Tok("num", 2), Tok("bad", 0) }

Lines == [ frame : FrameTokens, fps : FpsTokens, time : TimeTokens,
           speed : SpeedTokens ]

\* The estimates drawn as total_duration for direct calls of the parser.
Totals == { 0, 40 }

\* Lines 285-287.
ParseFrame(info, line) ==
    IF line.frame.k = "num" THEN [ info EXCEPT !.frame = line.frame.v ] ELSE info

\* Lines 290-292 (float() of a matched text that is a number).
ParseFps(info, line) ==
    IF line.fps.k = "num" THEN [ info EXCEPT !.fps = line.fps.v ] ELSE info

\* Line 298.
Seconds(hms) == hms[1] * 3600 + hms[2] * 60 + hms[3]

\* Line 302.
Percent(time_encoded, total_duration) ==
    RatMin(<<100, 1>>, Rat(time_encoded * 100, total_duration))

\* Eta dividing the remaining time by the fps, not by fps / target_fps.
EtaWithoutTargetFps(time_encoded, total_duration, fps, target_fps) ==
    Rat(total_duration - time_encoded, fps)

\* Lines 304-305.
Eta(time_encoded, total_duration, fps, target_fps) ==
    Rat((total_duration - time_encoded) * target_fps, fps)

\* ParseTime recomputing the ETA outside the branch of the time match.
ParseTimeEtaEveryLine(info, line, total_duration, target_fps) ==
    LET i1 == IF line.time.k = "num"
              THEN [ info EXCEPT !.time_encoded = Seconds(line.time.v) ]
              ELSE info
        i2 == IF line.time.k = "num" /\ total_duration > 0
              THEN [ i1 EXCEPT !.percent =
                         Percent(i1.time_encoded, total_duration) ]
              ELSE i1
    IN  IF total_duration > 0 /\ i2.fps > 0
        THEN [ i2 EXCEPT !.eta_seconds =
                   Eta(i2.time_encoded, total_duration, i2.fps, target_fps) ]
        ELSE i2

\* Lines 295-305.
ParseTime(info, line, total_duration, target_fps) ==
    IF line.time.k # "num" THEN info
    ELSE LET t  == Seconds(line.time.v)
             i1 == [ info EXCEPT !.time_encoded = t ]
         IN  IF total_duration > 0
             THEN LET i2 == [ i1 EXCEPT !.percent = Percent(t, total_duration) ]
                  IN  IF i2.fps > 0
                      THEN [ i2 EXCEPT !.eta_seconds =
                                 Eta(t, total_duration, i2.fps, target_fps) ]
                      ELSE i2
             ELSE i1

\* Lines 308-310.
ParseSpeed(info, line) ==
    IF line.speed.k = "num" THEN [ info EXCEPT !.speed = line.speed.v ] ELSE info

\* _parse_ffmpeg_progress: the snapshot it leaves and whether float() raised
\* ValueError (at line 292 or at line 310), in statement order.
ParseProgress(info, line, total_duration, target_fps) ==
    LET i1 == ParseFrame(info, line)
    IN  IF line.fps.k = "bad" THEN [ info |-> i1, raised |-> TRUE ]
        ELSE LET i3 == ParseTime(ParseFps(i1, line), line, total_duration,
                                 target_fps)
             IN  IF line.speed.k = "bad" THEN [ info |-> i3, raised |-> TRUE ]
                 ELSE [ info |-> ParseSpeed(i3, line), raised |-> FALSE ]

\* ------------------------------------------------------------------ state
VARIABLES
    \* the SlideshowGenerator object
    config, watermark, title, images, progress_info, stop_flag,
    \* the generate() activation: position, arguments, locals, return value
    pc, call, entry_config, original_config, cmd, total_duration, process,
    outcome, calls,
    \* the engine's side: its standard-output pipe, lines written so far,
    \* whether the output file exists, and the chunks of diagnostics waiting
    \* in its standard-error pipe
    stdout_pipe, emitted, output_exists, stderr_pipe,
    \* the last direct call of a method other than generate(), with its result
    ret,
    \* what is fixed beforehand for a behaviour: for the comparison of two
    \* runs, what the engine does in both and what the first run returned,
    \* launched and left; and when the other thread calls cancel()
    scenario,
    \* the snapshots the current generate() call has passed to the
    \* progress-bar callback, in the order of the invocations
    relayed,
    \* a generate() activation of a second SlideshowGenerator, in preview
    \* mode: its position, its original_config, its result, and the
    \* configuration object it was constructed with when that is a copy
    peer

vars == << config, watermark, title, images, progress_info, stop_flag,
           pc, call, entry_config, original_config, cmd, total_duration,
           process, outcome, calls, stdout_pipe, emitted, output_exists,
           stderr_pipe, ret, scenario, relayed, peer >>

object_vars == << config, watermark, title, images, progress_info, stop_flag >>
generate_vars == << pc, call, entry_config, original_config, cmd,
                    total_duration, process, outcome, calls >>
engine_vars == << stdout_pipe, emitted, output_exists, stderr_pipe >>

NoCall == [ preview |-> FALSE, audio_exists |-> FALSE, audio_ext_ok |-> FALSE,
            found |-> << >>, progress_callback |-> FALSE,
            progress_bar_callback |-> FALSE ]
NoOriginal == [ saved |-> FALSE, values |-> PreviewValues ]
NoCmd == [ inputs |-> << >>, filter_complex |-> << >>, map_video |-> Tag(""),
           map_audio |-> 0, crf |-> 0, preset |-> "" ]
NoProcess == [ state |-> "none", returncode |-> 0, stderr |-> "",
               terminated |-> FALSE ]
NoOutcome == [ success |-> FALSE, message |-> "", detail |-> "" ]
NoRet == [ op |-> "none" ]
NoFirst == [ recorded |-> FALSE, outcome |-> NoOutcome, cmd |-> NoCmd,
             config |-> DefaultVideoConfig ]
NoScript == [ binary |-> FALSE, lines |-> << >>, writes |-> << >>,
              exit |-> [ returncode |-> 0, stderr |-> "", output |-> FALSE ] ]
NoScenario == [ script |-> NoScript, first |-> NoFirst, cancel |-> "none",
                shared |-> FALSE ]

\* __init__ (lines 47-58) and no generate() activation yet; sc is what the
\* engine will do.
InitScenario(cfg, wm, ttl, total, sc) ==
    /\ config = cfg
    /\ watermark = wm
    /\ title = ttl
    /\ images = << >>
    /\ progress_info = InitialProgressInfo
    /\ stop_flag = FALSE
    /\ pc = "idle"
    /\ call = NoCall
    /\ entry_config = cfg
    /\ original_config = NoOriginal
    /\ cmd = NoCmd
    /\ total_duration = total
    /\ process = NoProcess
    /\ outcome = NoOutcome
    /\ calls = 0
    /\ stdout_pipe = << >>
    /\ emitted = 0
    /\ output_exists = FALSE
    /\ stderr_pipe = 0
    /\ ret = NoRet
    /\ scenario = sc
    /\ relayed = << >>
    /\ peer = [ pc |-> "idle", original_config |-> NoOriginal, config |-> cfg,
                outcome |-> NoOutcome ]

\* __init__ where no two runs are compared.
InitWith(cfg, wm, ttl, total) == InitScenario(cfg, wm, ttl, total, NoScenario)

\* ------------------------------------------------ direct method calls
\* PrepareRaises without the test of line 77.
PrepareRaisesNever(image_paths) == FALSE

\* Line 77: prepare_images raises ValueError on an empty list.
PrepareRaises(image_paths) == Len(image_paths) = 0

\* prepare_images(image_paths), called on a generator whose list was not
\* prepared before, or with an empty list.  ret keeps the argument, the
\* local image_paths after the ordering, and the returned list.
PrepareImagesCall(image_paths) ==
    /\ pc = "idle"
    /\ images = << >> \/ image_paths = << >>
    /\ IF PrepareRaises(image_paths)
       THEN /\ ret' = [ op |-> "prepare_images", arg |-> image_paths,
                        raised |-> TRUE, image_paths |-> << >>,
                        value |-> << >>, before |-> images ]
            /\ UNCHANGED images
       ELSE \E ordered \in Ordering(image_paths, config) :
              \E imgs \in ImageLists(ordered, config) :
                /\ images' = imgs
                /\ ret' = [ op |-> "prepare_images", arg |-> image_paths,
                            raised |-> FALSE, image_paths |-> ordered,
                            value |-> imgs, before |-> images ]
    /\ UNCHANGED << config, watermark, title, progress_info, stop_flag >>
    /\ UNCHANGED << generate_vars, engine_vars, scenario, relayed, peer >>

\* _build_filter_complex(with_watermark, with_title) on the prepared list.
BuildFilterCall(with_watermark, with_title) ==
    /\ pc = "idle"
    /\ ret' = [ op |-> "build", with_watermark |-> with_watermark,
                with_title |-> with_title,
                value |-> BuildFilterComplex(images, config, watermark, title,
                                             with_watermark, with_title) ]
    /\ UNCHANGED << object_vars, generate_vars, engine_vars, scenario, relayed, peer >>

\* estimate_duration() on the prepared list.
EstimateDurationCall ==
    /\ pc = "idle"
    /\ ret' = [ op |-> "estimate",
                value |-> EstimateDuration(images, config, title) ]
    /\ UNCHANGED << object_vars, generate_vars, engine_vars, scenario, relayed, peer >>

\* _parse_ffmpeg_progress(line, total_duration), with the estimate of the
\* run as total_duration.  ret keeps the line and the snapshot as it was
\* before the call.
ParseCall(line) ==
    /\ pc = "idle"
    /\ LET r == ParseProgress(progress_info, line, total_duration, config.fps)
       IN  /\ progress_info' = r.info
           /\ ret' = [ op |-> "parse", line |-> line,
                       before |-> progress_info, raised |-> r.raised ]
    /\ UNCHANGED << config, watermark, title, images, stop_flag >>
    /\ UNCHANGED << generate_vars, engine_vars, scenario, relayed, peer >>

\* ------------------------------------------- specification: prepare_images
Directions == { "in", "out", "random", "alternate" }
PanDirections == { "left", "right", "random", "alternate" }

PrepareConfigs ==
    { [ DefaultVideoConfig EXCEPT !.zoom_direction = z, !.pan_direction = p,
                                  !.transition = t, !.shuffle = s,
                                  !.reverse = r ] :
        z \in Directions, p \in PanDirections, t \in { "fade", "random" },
        s \in BOOLEAN, r \in BOOLEAN }

InitPrepare == \E cfg \in PrepareConfigs : InitWith(cfg, NoWatermark, NoTitle, 0)
NextPrepare == \E image_paths \in SortedLists : PrepareImagesCall(image_paths)
SpecPrepare == InitPrepare /\ [][NextPrepare]_vars

\* ------------------------- specification: graph builder and estimate
\* The list find_images returns for a directory of n images.
PrefixLists == { [ i \in 1 .. n |-> i ] : n \in 0 .. MaxImages }

GraphConfigs ==
    { [ DefaultVideoConfig EXCEPT !.duration = d, !.crossfade = c,
                                  !.transition = t ] :
        d \in 1 .. MaxDuration, c \in 0 .. MaxCrossfade,
        t \in { "fade", "wipeleft", "random", "sparkle" } }

Watermarks ==
    { NoWatermark,
      [ attached |-> TRUE, enabled |-> FALSE, on_disk |-> TRUE,
        position |-> "bottom-right" ],
      [ attached |-> TRUE, enabled |-> TRUE, on_disk |-> TRUE,
        position |-> "center" ] }

Titles ==
    { NoTitle,
      [ attached |-> TRUE, enabled |-> FALSE, duration |-> 4 ],
      [ attached |-> TRUE, enabled |-> TRUE, duration |-> 4 ] }

InitGraph ==
    \E cfg \in GraphConfigs, wm \in Watermarks, ttl \in Titles :
        InitWith(cfg, wm, ttl, 0)
NextGraph ==
    \/ \E image_paths \in PrefixLists : PrepareImagesCall(image_paths)
    \/ \E ww \in BOOLEAN, wt \in BOOLEAN : BuildFilterCall(ww, wt)
    \/ EstimateDurationCall
SpecGraph == InitGraph /\ [][NextGraph]_vars

\* ------------------------------------------ specification: progress parser
ParseConfigs ==
    { DefaultVideoConfig, [ DefaultVideoConfig EXCEPT !.fps = 15 ] }

InitParse ==
    \E cfg \in ParseConfigs, total \in Totals :
        InitWith(cfg, NoWatermark, NoTitle, total)
NextParse == \E line \in Lines : ParseCall(line)
SpecParse == InitParse /\ [][NextParse]_vars

\* ------------------------------------------------------------ generate()
\* The return values: (success, message); detail is the text the message
\* template is filled with where a claim reads it (the captured stderr).
Outcome(success, message, detail) ==
    [ success |-> success, message |-> message, detail |-> detail ]

AudioNotFound    == Outcome(FALSE, "Audio file not found", "")
UnsupportedAudio == Outcome(FALSE, "Unsupported audio format", "")
NoImagesFound    == Outcome(FALSE, "No images found in", "")
Cancelled        == Outcome(FALSE, "Generation cancelled", "")
EngineError(stderr) == Outcome(FALSE, "FFmpeg error", stderr)
OutputMissing    == Outcome(FALSE, "Output file was not created", "")
VideoCreated     == Outcome(TRUE, "Video created", "")
EngineMissing    == Outcome(FALSE, "FFmpeg not found. Please install FFmpeg.", "")
ErrorRaised      == Outcome(FALSE, "Error", "ValueError")

\* What find_images returns in the runs of generate() explored: no image,
\* two images.
FoundLists == { << >>, << 1, 2 >> }

\* The arguments and file-system facts of one generate() call: found is the
\* list find_images(image_path) returns.
Calls ==
    [ preview : BOOLEAN, audio_exists : BOOLEAN, audio_ext_ok : BOOLEAN,
      found : FoundLists, progress_callback : BOOLEAN,
      progress_bar_callback : BOOLEAN ]

\* The lines the engine writes in the runs of generate() explored.
EngineLines ==
    { [ frame |-> Tok("num", 120), fps |-> Tok("num", 30),
        time |-> Tok("num", <<0, 0, 4>>), speed |-> Tok("num", 2) ],
      [ frame |-> Tok("num", 120), fps |-> Tok("absent", 0),
        time |-> Tok("absent", <<0, 0, 0>>), speed |-> Tok("absent", 0) ],
      [ frame |-> Tok("absent", 0), fps |-> Tok("bad", 0),
        time |-> Tok("absent", <<0, 0, 0>>), speed |-> Tok("absent", 0) ] }

\* How the engine can end: exit code, text on standard error, and whether
\* the output file exists afterwards.
EngineExits ==
    { [ returncode |-> 0, stderr |-> "", output |-> TRUE ],
      [ returncode |-> 0, stderr |-> "", output |-> FALSE ],
      [ returncode |-> 1, stderr |-> "Invalid argument", output |-> FALSE ],
      [ returncode |-> 1, stderr |-> "Invalid argument", output |-> TRUE ] }

\* A return statement of generate().
Return(o) ==
    /\ outcome' = o
    /\ pc' = "done"

\* GenerateEnter without the assignment of line 337.
GenerateEnterKeepingFlag(c) ==
    /\ pc \in { "idle", "done" }
    /\ calls < MaxCalls
    /\ calls' = calls + 1
    /\ call' = c
    /\ entry_config' = config
    /\ pc' = "validate"
    /\ outcome' = NoOutcome
    /\ original_config' = NoOriginal
    /\ cmd' = NoCmd
    /\ process' = NoProcess
    /\ stdout_pipe' = << >>
    /\ emitted' = 0
    /\ output_exists' = FALSE
    /\ stderr_pipe' = 0
    /\ total_duration' = 0
    /\ ret' = NoRet
    /\ relayed' = << >>
    /\ UNCHANGED << config, watermark, title, images, progress_info, stop_flag,
                    scenario, peer >>

\* Line 337, on entry of a call.
GenerateEnter(c) ==
    /\ pc \in { "idle", "done" }
    /\ calls < MaxCalls
    /\ calls' = calls + 1
    /\ call' = c
    /\ entry_config' = config
    /\ stop_flag' = FALSE
    /\ pc' = "validate"
    /\ outcome' = NoOutcome
    /\ original_config' = NoOriginal
    /\ cmd' = NoCmd
    /\ process' = NoProcess
    /\ stdout_pipe' = << >>
    /\ emitted' = 0
    /\ output_exists' = FALSE
    /\ stderr_pipe' = 0
    /\ total_duration' = 0
    /\ ret' = NoRet
    /\ relayed' = << >>
    /\ UNCHANGED << config, watermark, title, images, progress_info,
                    scenario, peer >>

\* ValidationFailure with the extension test ahead of the existence test.
ValidationFailureExtensionFirst(c) ==
    IF ~ c.audio_ext_ok THEN UnsupportedAudio
    ELSE IF ~ c.audio_exists THEN AudioNotFound
    ELSE IF Len(c.found) = 0 THEN NoImagesFound
    ELSE NoOutcome

\* Lines 340-349: the failure the validation returns, NoOutcome when it passes.
ValidationFailure(c) ==
    IF ~ c.audio_exists THEN AudioNotFound
    ELSE IF ~ c.audio_ext_ok THEN UnsupportedAudio
    ELSE IF Len(c.found) = 0 THEN NoImagesFound
    ELSE NoOutcome

\* Lines 340-354: validation, find_images, prepare_images.
Validate ==
    /\ pc = "validate"
    /\ IF ValidationFailure(call) # NoOutcome
       THEN /\ Return(ValidationFailure(call))
            /\ UNCHANGED images
       ELSE /\ \E ordered \in Ordering(call.found, config) :
                 \E imgs \in ImageLists(ordered, config) : images' = imgs
            /\ pc' = "preview"
            /\ UNCHANGED outcome
    /\ UNCHANGED << config, watermark, title, progress_info, stop_flag, call,
                    entry_config, original_config, cmd, total_duration,
                    process, calls, engine_vars, ret, scenario, relayed, peer >>

\* Lines 359-362: the tuple saved in original_config.
SavedFields(cfg) == [ f \in PreviewFields |-> cfg[f] ]

\* Lines 363-367.
PreviewConfig(cfg) ==
    [ cfg EXCEPT !.width = PreviewValues.width, !.height = PreviewValues.height,
                 !.fps = PreviewValues.fps, !.crf = PreviewValues.crf,
                 !.preset = PreviewValues.preset ]

\* Lines 357-367.
SubstitutePreview ==
    /\ pc = "preview"
    /\ IF call.preview
       THEN /\ original_config' = [ saved |-> TRUE, values |-> SavedFields(config) ]
            /\ config' = PreviewConfig(config)
       ELSE /\ original_config' = NoOriginal
            /\ UNCHANGED config
    /\ pc' = "assemble"
    /\ UNCHANGED << watermark, title, images, progress_info, stop_flag, call,
                    entry_config, cmd, total_duration, process, outcome, calls,
                    engine_vars, ret, scenario, relayed, peer >>

\* Lines 370-374.
HasWatermark(wm) == wm.attached /\ wm.enabled /\ wm.on_disk

\* Command asking the builder to take the title into account.
CommandWithTitleOffset(imgs, cfg, wm, ttl) ==
    [ inputs |-> [ i \in 1 .. Len(imgs) |-> "image" ] \o << "audio" >>
                 \o (IF HasWatermark(wm) THEN << "watermark" >> ELSE << >>),
      filter_complex |->
          BuildFilterComplex(imgs, cfg, wm, ttl, HasWatermark(wm), TRUE),
      map_video |-> Tag("v"),
      map_audio |-> Len(imgs),
      crf |-> cfg.crf,
      preset |-> cfg.preset ]

\* Lines 377-406: the command, as its inputs in order, the graph expression,
\* the two -map options and the encode parameters.
Command(imgs, cfg, wm, ttl) ==
    [ inputs |-> [ i \in 1 .. Len(imgs) |-> "image" ] \o << "audio" >>
                 \o (IF HasWatermark(wm) THEN << "watermark" >> ELSE << >>),
      filter_complex |->
          BuildFilterComplex(imgs, cfg, wm, ttl, HasWatermark(wm), FALSE),
      map_video |-> Tag("v"),
      map_audio |-> Len(imgs),
      crf |-> cfg.crf,
      preset |-> cfg.preset ]

\* Lines 370-413: assemble the command and estimate the total duration.
Assemble ==
    /\ pc = "assemble"
    /\ cmd' = Command(images, config, watermark, title)
    /\ total_duration' = EstimateDuration(images, config, title)
    /\ pc' = "launch"
    /\ UNCHANGED << object_vars, call, entry_config, original_config, process,
                    outcome, calls, engine_vars, ret, scenario, relayed, peer >>

\* Lines 417-422 and 457-458: Popen starts the engine, or raises
\* FileNotFoundError when the binary is not on the path.
Launch ==
    /\ pc = "launch"
    /\ \E found_binary \in BOOLEAN :
         IF found_binary
         THEN /\ process' = [ NoProcess EXCEPT !.state = "running" ]
              /\ pc' = "poll"
              /\ UNCHANGED outcome
         ELSE /\ Return(EngineMissing)
              /\ UNCHANGED process
    /\ UNCHANGED << object_vars, call, entry_config, original_config, cmd,
                    total_duration, calls, engine_vars, ret, scenario, relayed, peer >>

\* PollStopFlag without the test of the flag.
PollWithoutTest ==
    /\ pc = "poll"
    /\ pc' = "readline"
    /\ UNCHANGED << process, outcome >>
    /\ UNCHANGED << object_vars, call, entry_config, original_config, cmd,
                    total_duration, calls, engine_vars, ret, scenario, relayed, peer >>

\* Lines 426-428: the poll of the cancellation flag at the head of the loop.
PollStopFlag ==
    /\ pc = "poll"
    /\ IF stop_flag
       THEN /\ process' = [ process EXCEPT !.terminated = TRUE ]
            /\ Return(Cancelled)
       ELSE /\ pc' = "readline"
            /\ UNCHANGED << process, outcome >>
    /\ UNCHANGED << object_vars, call, entry_config, original_config, cmd,
                    total_duration, calls, engine_vars, ret, scenario, relayed, peer >>

\* Lines 430-437 and 459-460: readline() blocks until a line is in the pipe
\* or the pipe is at end of file; a line goes through the parser when a
\* progress-bar callback was given; ValueError leaves by line 460.
ReadLine ==
    /\ pc = "readline"
    /\ IF stdout_pipe # << >>
       THEN /\ stdout_pipe' = Tail(stdout_pipe)
            /\ IF call.progress_bar_callback
               THEN LET r == ParseProgress(progress_info, Head(stdout_pipe),
                                           total_duration, config.fps)
                    IN  /\ progress_info' = r.info
                        /\ IF r.raised
                           THEN Return(ErrorRaised) /\ UNCHANGED relayed
                           ELSE /\ relayed' = Append(relayed, r.info)
                                /\ pc' = "poll"
                                /\ UNCHANGED outcome
               ELSE /\ pc' = "poll"
                    /\ UNCHANGED << progress_info, outcome, relayed, peer >>
       ELSE /\ process.state = "exited"
            /\ pc' = "finish"
            /\ UNCHANGED << stdout_pipe, progress_info, outcome, relayed, peer >>
    /\ UNCHANGED << config, watermark, title, images, stop_flag, call,
                    entry_config, original_config, cmd, total_duration,
                    process, calls, emitted, output_exists, stderr_pipe, ret,
                    scenario, peer >>

\* RestoreConfig with the preset left out of the tuple assignment.
RestoreConfigWithoutPreset(cfg, original) ==
    IF original.saved
    THEN [ cfg EXCEPT !.width = original.values.width,
                      !.height = original.values.height,
                      !.fps = original.values.fps,
                      !.crf = original.values.crf ]
    ELSE cfg

\* Lines 443-445.
RestoreConfig(cfg, original) ==
    IF original.saved
    THEN [ cfg EXCEPT !.width = original.values.width,
                      !.height = original.values.height,
                      !.fps = original.values.fps,
                      !.crf = original.values.crf,
                      !.preset = original.values.preset ]
    ELSE cfg

\* Classify without the test that the output file exists.
ClassifyByExitCodeOnly(returncode, stderr, exists) ==
    IF returncode # 0 THEN EngineError(stderr) ELSE VideoCreated

\* Lines 447-455.
Classify(returncode, stderr, exists) ==
    IF returncode # 0 THEN EngineError(stderr)
    ELSE IF exists THEN VideoCreated
    ELSE OutputMissing

\* Finish looking at the cancellation flag once more before it classifies.
FinishHonouringFlag ==
    /\ pc = "finish"
    /\ config' = RestoreConfig(config, original_config)
    /\ Return(IF stop_flag THEN Cancelled
              ELSE Classify(process.returncode, process.stderr, output_exists))
    /\ stderr_pipe' = 0
    /\ UNCHANGED << watermark, title, images, progress_info, stop_flag, call,
                    entry_config, original_config, cmd, total_duration,
                    process, calls, stdout_pipe, emitted, output_exists, ret,
                    scenario, relayed, peer >>

\* Lines 440-455: communicate(), which empties the standard-error pipe,
\* restore the configuration, classify.
Finish ==
    /\ pc = "finish"
    /\ config' = RestoreConfig(config, original_config)
    /\ Return(Classify(process.returncode, process.stderr, output_exists))
    /\ stderr_pipe' = 0
    /\ UNCHANGED << watermark, title, images, progress_info, stop_flag, call,
                    entry_config, original_config, cmd, total_duration,
                    process, calls, stdout_pipe, emitted, output_exists, ret,
                    scenario, relayed, peer >>

\* Lines 477-479: cancel(), from another thread, at any moment.
Cancel ==
    /\ stop_flag' = TRUE
    /\ UNCHANGED << config, watermark, title, images, progress_info,
                    generate_vars, engine_vars, ret, scenario, relayed, peer >>

\* The engine writes one line to its standard output.
EngineEmit(line) ==
    /\ pc \in { "poll", "readline" }
    /\ process.state = "running"
    /\ emitted < MaxLines
    /\ emitted' = emitted + 1
    /\ stdout_pipe' = Append(stdout_pipe, line)
    /\ UNCHANGED << object_vars, generate_vars, output_exists, stderr_pipe,
                    ret, scenario, relayed, peer >>

\* The engine exits.
EngineExit(e) ==
    /\ pc \in { "poll", "readline" }
    /\ process.state = "running"
    /\ process' = [ process EXCEPT !.state = "exited",
                                   !.returncode = e.returncode,
                                   !.stderr = e.stderr ]
    /\ output_exists' = e.output
    /\ UNCHANGED << object_vars, pc, call, entry_config, original_config, cmd,
                    total_duration, outcome, calls, stdout_pipe, emitted,
                    stderr_pipe, ret, scenario, relayed, peer >>

\* The engine writes one chunk of diagnostics to its standard error; the
\* write blocks while the pipe, which nothing reads before communicate()
\* (line 440), is full.
EngineWriteStderr ==
    /\ pc \in { "poll", "readline" }
    /\ process.state = "running"
    /\ stderr_pipe < PipeCapacity
    /\ stderr_pipe' = stderr_pipe + 1
    /\ UNCHANGED << object_vars, generate_vars, stdout_pipe, emitted,
                    output_exists, ret, scenario, relayed, peer >>

Init == InitWith(DefaultVideoConfig, NoWatermark, NoTitle, 0)

Next ==
    \/ \E c \in Calls : GenerateEnter(c)
    \/ Validate
    \/ SubstitutePreview
    \/ Assemble
    \/ Launch
    \/ PollStopFlag
    \/ ReadLine
    \/ Finish
    \/ Cancel
    \/ \E line \in EngineLines : EngineEmit(line)
    \/ \E e \in EngineExits : EngineExit(e)

Spec == Init /\ [][Next]_vars

\* ------------------------------- specification: the command of generate()
\* generate() from its entry to the assembled command, on generators built
\* with and without watermark and title.
CommandWatermarks ==
    Watermarks \cup { [ attached |-> TRUE, enabled |-> TRUE, on_disk |-> FALSE,
                        position |-> "top-left" ] }

CommandCalls ==
    [ preview : BOOLEAN, audio_exists : BOOLEAN, audio_ext_ok : { TRUE },
      found : PrefixLists, progress_callback : { FALSE },
      progress_bar_callback : { FALSE } ]

InitCommand ==
    \E wm \in CommandWatermarks, ttl \in Titles :
        InitWith(DefaultVideoConfig, wm, ttl, 0)
NextCommand ==
    \/ \E c \in CommandCalls : GenerateEnter(c)
    \/ Validate
    \/ SubstitutePreview
    \/ Assemble
SpecCommand == InitCommand /\ [][NextCommand]_vars

\* ----------------------- specification: generate() with and without callbacks
\* Two runs of generate() against an engine that behaves the same in both:
\* whether the binary is found, the lines it writes, how it exits.  The
\* first run is called with any callbacks; the second with the same
\* arguments and no callback, on a generator constructed like the first.
\* cancel() is called in neither.
EngineScripts ==
    [ binary : BOOLEAN,
      lines : UNION { [ 1 .. n -> EngineLines ] : n \in 0 .. MaxLines },
      writes : { << >> },
      exit : EngineExits ]

CallbackCalls ==
    [ preview : BOOLEAN, audio_exists : BOOLEAN, audio_ext_ok : { TRUE },
      found : FoundLists, progress_callback : BOOLEAN,
      progress_bar_callback : BOOLEAN ]

\* Lines 321-322 at their defaults: both callbacks None.
WithoutCallbacks(c) ==
    [ c EXCEPT !.progress_callback = FALSE, !.progress_bar_callback = FALSE ]

\* The first run has returned: keep what it returned, launched and left, and
\* construct the generator of the second run with the configuration the
\* first run was entered with.
Reconstruct ==
    /\ pc = "done" /\ calls = 1 /\ ~ scenario.first.recorded
    /\ scenario' = [ scenario EXCEPT !.first =
                        [ recorded |-> TRUE, outcome |-> outcome, cmd |-> cmd,
                          config |-> config ] ]
    /\ config' = entry_config
    /\ images' = << >>
    /\ progress_info' = InitialProgressInfo
    /\ stop_flag' = FALSE
    /\ pc' = "idle"
    /\ UNCHANGED << watermark, title, call, entry_config, original_config, cmd,
                    total_duration, process, outcome, calls, engine_vars, ret,
                    relayed, peer >>

InitCallbacks ==
    \E script \in EngineScripts :
        InitScenario(DefaultVideoConfig, NoWatermark, NoTitle, 0,
                     [ NoScenario EXCEPT !.script = script ])

NextCallbacks ==
    \/ \E c \in CallbackCalls :
         /\ pc = "idle" /\ calls < 2
         /\ scenario.first.recorded => c = WithoutCallbacks(call)
         /\ GenerateEnter(c)
    \/ Validate
    \/ SubstitutePreview
    \/ Assemble
    \/ Launch /\ (process'.state = "running") = scenario.script.binary
    \/ PollStopFlag
    \/ ReadLine
    \/ Finish
    \/ /\ emitted < Len(scenario.script.lines)
       /\ EngineEmit(scenario.script.lines[emitted + 1])
    \/ /\ emitted = Len(scenario.script.lines)
       /\ EngineExit(scenario.script.exit)
    \/ Reconstruct

SpecCallbacks == InitCallbacks /\ [][NextCallbacks]_vars

\* ----------------------------- specification: cancel() from another thread
\* generate() with the other thread's cancel() placed beforehand: before
\* the first call is made, or at any moment of the first call between the
\* launch of the engine and the return, a second call being then made once
\* the first has returned cancelled.
CancelPlans == { "before_call", "during_run" }

CancelCalls ==
    [ preview : BOOLEAN, audio_exists : { TRUE }, audio_ext_ok : { TRUE },
      found : { << 1, 2 >> }, progress_callback : { FALSE },
      progress_bar_callback : BOOLEAN ]

InitCancel ==
    \E plan \in CancelPlans :
        InitScenario(DefaultVideoConfig, NoWatermark, NoTitle, 0,
                     [ NoScenario EXCEPT !.cancel = plan ])

NextCancel ==
    \/ \E c \in CancelCalls :
         /\ calls = 0
         /\ scenario.cancel = "before_call" => stop_flag
         /\ GenerateEnter(c)
    \/ \E c \in CancelCalls :
         /\ calls = 1
         /\ scenario.cancel = "during_run" /\ outcome = Cancelled
         /\ GenerateEnter(c)
    \/ Validate
    \/ SubstitutePreview
    \/ Assemble
    \/ Launch
    \/ PollStopFlag
    \/ ReadLine
    \/ Finish
    \/ /\ scenario.cancel = "before_call"
       /\ pc = "idle" /\ calls = 0
       /\ Cancel
    \/ /\ scenario.cancel = "during_run"
       /\ calls = 1 /\ pc \in { "poll", "readline", "finish" }
       /\ Cancel
    \/ \E line \in EngineLines : EngineEmit(line)
    \/ \E e \in EngineExits : EngineExit(e)

SpecCancel == InitCancel /\ [][NextCancel]_vars

\* ------------------------------- specification: generate() on bounded pipes
\* One generate() call against an engine that makes a fixed sequence of
\* writes, each a progress line to standard output or a chunk of
\* diagnostics to standard error, and then exits; a write blocks while its
\* pipe holds PipeCapacity items.
ProgressLine ==
    [ frame |-> Tok("num", 120), fps |-> Tok("num", 30),
      time |-> Tok("num", <<0, 0, 4>>), speed |-> Tok("num", 2) ]

EngineWrites ==
    { w \in UNION { [ 1 .. n -> { "stdout", "stderr" } ] : n \in 0 .. MaxWrites } :
        Cardinality({ k \in 1 .. Len(w) : w[k] = "stdout" }) <= MaxLines }

PipeCalls ==
    [ preview : { FALSE }, audio_exists : { TRUE }, audio_ext_ok : { TRUE },
      found : { << 1, 2 >> }, progress_callback : { FALSE },
      progress_bar_callback : BOOLEAN ]

\* The position in the script of the engine's next write.
NextWrite == emitted + stderr_pipe + 1

InitPipes ==
    \E writes \in EngineWrites, e \in EngineExits :
        InitScenario(DefaultVideoConfig, NoWatermark, NoTitle, 0,
                     [ NoScenario EXCEPT !.script.writes = writes,
                                         !.script.exit = e ])

NextPipes ==
    \/ \E c \in PipeCalls : calls = 0 /\ GenerateEnter(c)
    \/ Validate
    \/ SubstitutePreview
    \/ Assemble
    \/ Launch
    \/ PollStopFlag
    \/ ReadLine
    \/ Finish
    \/ /\ NextWrite <= Len(scenario.script.writes)
       /\ scenario.script.writes[NextWrite] = "stdout"
       /\ Len(stdout_pipe) < PipeCapacity
       /\ EngineEmit(ProgressLine)
    \/ /\ NextWrite <= Len(scenario.script.writes)
       /\ scenario.script.writes[NextWrite] = "stderr"
       /\ EngineWriteStderr
    \/ /\ NextWrite > Len(scenario.script.writes)
       /\ EngineExit(scenario.script.exit)

SpecPipes == InitPipes /\ [][NextPipes]_vars

\* --------------------------- specification: two generators, preview mode
\* Two SlideshowGenerator objects, each running generate() in preview mode
\* with valid inputs, constructed either with the same VideoConfig object
\* (line 55 keeps the reference it is given) or with two copies of it. The
\* second generator's engine exits with code 0 and leaves the output file.

\* The second generator's configuration, always the first one's object.
PeerConfigAlwaysShared == config

\* Line 55: self.config of the second generator.
PeerConfig == IF scenario.shared THEN config ELSE peer.config

\* An assignment to the fields of the second generator's self.config.
PeerAssign(cfg, p) ==
    IF scenario.shared
    THEN config' = cfg /\ peer' = p
    ELSE peer' = [ p EXCEPT !.config = cfg ] /\ UNCHANGED config

peer_frame == << watermark, title, images, progress_info, stop_flag,
                 generate_vars, engine_vars, ret, scenario, relayed >>

\* Lines 337-351 of the second activation: validation passes.
PeerEnter ==
    /\ peer.pc = "idle"
    /\ peer' = [ peer EXCEPT !.pc = "preview" ]
    /\ UNCHANGED << config, peer_frame >>

\* Lines 357-367 of the second activation.
PeerSubstitutePreview ==
    /\ peer.pc = "preview"
    /\ PeerAssign(PreviewConfig(PeerConfig),
                  [ peer EXCEPT !.pc = "run",
                                !.original_config =
                                    [ saved |-> TRUE,
                                      values |-> SavedFields(PeerConfig) ] ])
    /\ UNCHANGED peer_frame

\* Lines 370-440 of the second activation: its engine runs and exits.
PeerRun ==
    /\ peer.pc = "run"
    /\ peer' = [ peer EXCEPT !.pc = "finish" ]
    /\ UNCHANGED << config, peer_frame >>

\* Lines 443-455 of the second activation.
PeerFinish ==
    /\ peer.pc = "finish"
    /\ PeerAssign(RestoreConfig(PeerConfig, peer.original_config),
                  [ peer EXCEPT !.pc = "done", !.outcome = VideoCreated ])
    /\ UNCHANGED peer_frame

ReentrantCalls ==
    [ preview : { TRUE }, audio_exists : { TRUE }, audio_ext_ok : { TRUE },
      found : { << 1, 2 >> }, progress_callback : { FALSE },
      progress_bar_callback : BOOLEAN ]

InitReentrant ==
    \E shared \in BOOLEAN :
        InitScenario(DefaultVideoConfig, NoWatermark, NoTitle, 0,
                     [ NoScenario EXCEPT !.shared = shared ])

NextReentrant ==
    \/ \E c \in ReentrantCalls : calls = 0 /\ GenerateEnter(c)
    \/ Validate
    \/ SubstitutePreview
    \/ Assemble
    \/ Launch
    \/ PollStopFlag
    \/ ReadLine
    \/ Finish
    \/ EngineEmit(ProgressLine)
    \/ \E e \in EngineExits : EngineExit(e)
    \/ PeerEnter
    \/ PeerSubstitutePreview
    \/ PeerRun
    \/ PeerFinish

SpecReentrant == InitReentrant /\ [][NextReentrant]_vars

\* ================================================================ claims
\* The five preview fields of the configuration hold the values they held
\* when the current generate() call was entered.
PreviewFieldsAsOnEntry == \A f \in PreviewFields : config[f] = entry_config[f]

\* The outcomes that the classification of lines 447-455 returns.
ExitOutcomes ==
    { VideoCreated, OutputMissing } \cup { EngineError(e.stderr) : e \in EngineExits }

\* C1: a preview call whose engine was launched and ran to process exit
\* (any exit code, output file present or missing) returns with width,
\* height, fps, crf and preset at the values they had before the call.
C1_PreviewRestoredAfterProcessExit ==
    (pc = "done" /\ call.preview /\ process.state = "exited"
        /\ outcome \in ExitOutcomes)
    => PreviewFieldsAsOnEntry

\* C1 witness: a preview call has returned success and the configuration is
\* back at the caller's values, which differ from the preview values.
C1_Witness ==
    /\ pc = "done" /\ call.preview /\ outcome = VideoCreated
    /\ original_config.saved
    /\ config = DefaultVideoConfig
    /\ config # PreviewConfig(config)

\* C2 (as claimed): every preview call, whichever way it returns (engine
\* cannot be launched, cancellation, exception in the pump loop), returns
\* with the five fields at their pre-call values.
C2_PreviewRestoredOnEveryExit ==
    (pc = "done" /\ call.preview) => PreviewFieldsAsOnEntry

\* C3: a call that fails a pre-launch validation launches no engine at any
\* point, and returns the failure of the first failing test in the order
\* audio exists, audio extension, images found; the three failures differ.
C3_ValidationFailsBeforeLaunch ==
    /\ (calls > 0 /\ (~ call.audio_exists \/ ~ call.audio_ext_ok
                      \/ call.found = << >>))
       => (process.state = "none" /\ cmd = NoCmd
           /\ pc \in { "validate", "done" })
    /\ pc = "done" =>
         /\ ~ call.audio_exists => outcome = AudioNotFound
         /\ (call.audio_exists /\ ~ call.audio_ext_ok)
              => outcome = UnsupportedAudio
         /\ (call.audio_exists /\ call.audio_ext_ok /\ call.found = << >>)
              => outcome = NoImagesFound
    /\ AudioNotFound # UnsupportedAudio
    /\ AudioNotFound # NoImagesFound
    /\ UnsupportedAudio # NoImagesFound

\* C3 witness: all three tests would fail, and the call returned the
\* failure of the first one without launching.
C3_Witness ==
    /\ pc = "done"
    /\ ~ call.audio_exists /\ ~ call.audio_ext_ok /\ call.found = << >>
    /\ outcome = AudioNotFound
    /\ process.state = "none"

\* C4: when the engine has exited and the call returns neither by
\* cancellation nor by an exception, the outcome is the engine error with
\* the captured stderr for a non-zero exit code, output-missing for exit
\* code 0 without output file, success for exit code 0 with the file; and
\* success is returned in no other case.
C4_OutcomeByExitCodeAndOutput ==
    /\ (pc = "done" /\ process.state = "exited"
          /\ outcome \notin { Cancelled, ErrorRaised })
       => outcome = IF process.returncode # 0 THEN EngineError(process.stderr)
                    ELSE IF ~ output_exists THEN OutputMissing
                    ELSE VideoCreated
    /\ outcome.success
       => (pc = "done" /\ process.state = "exited"
           /\ process.returncode = 0 /\ output_exists)
    /\ \A e \in EngineExits :
         /\ EngineError(e.stderr) # OutputMissing
         /\ ~ EngineError(e.stderr).success
    /\ ~ OutputMissing.success

\* C4 witness: exit code 0 and no output file gave output-missing.
C4_Witness ==
    /\ pc = "done" /\ process.state = "exited"
    /\ process.returncode = 0 /\ ~ output_exists
    /\ outcome = OutputMissing

\* C5: the flag is polled at the head of every iteration, before the line is
\* read: a line leaves the pipe only at the read that follows a poll which
\* found the flag clear; a poll that finds the flag set sends terminate to
\* the child and returns the cancellation outcome, which differs from
\* success, engine error, output missing and engine missing.
C5_FlagPolledBeforeEachRead ==
    [][ /\ (pc = "poll" /\ pc' # "poll" /\ stop_flag)
           => (pc' = "done" /\ outcome' = Cancelled /\ process'.terminated
               /\ stdout_pipe' = stdout_pipe)
        /\ (pc = "poll" /\ pc' # "poll" /\ ~ stop_flag) => pc' = "readline"
        /\ (pc' = "readline" /\ pc # "readline") => (pc = "poll" /\ ~ stop_flag)
        /\ (calls' = calls /\ Len(stdout_pipe') < Len(stdout_pipe))
           => (pc = "readline" /\ pc' \in { "poll", "done" })
        /\ (process'.terminated /\ ~ process.terminated)
           => outcome' = Cancelled
        /\ Cancelled \notin ExitOutcomes \cup { EngineMissing }
      ]_vars

\* C5 witness: a line was read, the next poll found the flag set, and the
\* call returned the cancellation outcome with the child sent terminate.
C5_Witness ==
    /\ pc = "done" /\ outcome = Cancelled
    /\ process.terminated /\ process.state = "running"
    /\ emitted = 1 /\ stdout_pipe = << >>

\* C6: prepare_images on a non-empty list returns one ImageInfo per input
\* path; the element at position i has index i (0-based, dense) and the
\* path at position i of the list as ordered by shuffle/reverse.
C6_OneImageInfoPerPath ==
    (ret.op = "prepare_images" /\ ~ ret.raised) =>
        /\ Len(ret.value) = Len(ret.arg)
        /\ Len(ret.image_paths) = Len(ret.arg)
        /\ \A pos \in 1 .. Len(ret.value) :
             /\ ret.value[pos].index = pos - 1
             /\ ret.value[pos].path = ret.image_paths[pos]
        /\ images = ret.value

\* C6 witness: three paths were shuffled into another order and prepared.
C6_Witness ==
    /\ ret.op = "prepare_images" /\ ~ ret.raised
    /\ config.shuffle
    /\ Len(ret.arg) = 3 /\ ret.image_paths # ret.arg
    /\ ret.value[3].index = 2

\* C7: under the alternate policies zoom_in and pan_left_to_right are
\* (index is even), whatever the length, the ordering and the other
\* policies; in/out and left/right give every image the same constant.
C7_AlternateByIndexParity ==
    (ret.op = "prepare_images" /\ ~ ret.raised) =>
        \A pos \in 1 .. Len(ret.value) :
            LET img == ret.value[pos]
                even == (pos - 1) % 2 = 0
            IN  /\ config.zoom_direction = "alternate" => img.zoom_in = even
                /\ config.pan_direction = "alternate"
                     => img.pan_left_to_right = even
                /\ config.zoom_direction = "in" => img.zoom_in
                /\ config.zoom_direction = "out" => ~ img.zoom_in
                /\ config.pan_direction = "left" => img.pan_left_to_right
                /\ config.pan_direction = "right" => ~ img.pan_left_to_right

\* C7 witness: three shuffled images under alternate zoom, with random pan
\* and transition: in, out, in.
C7_Witness ==
    /\ ret.op = "prepare_images" /\ ~ ret.raised
    /\ config.zoom_direction = "alternate" /\ config.pan_direction = "random"
    /\ config.transition = "random" /\ config.shuffle
    /\ Len(ret.value) = 3
    /\ ret.value[1].zoom_in /\ ~ ret.value[2].zoom_in /\ ret.value[3].zoom_in
    /\ ~ ret.value[1].pan_left_to_right

\* The cross-fade clauses of an expression, in clause order.
XfadeClauses(filters) == SelectSeq(filters, LAMBDA c : c.kind = "xfade")

\* C8: for n >= 2 images and crossfade < duration the builder emits n-1
\* cross-fade clauses; the N-th joins image N, has offset
\* N * (duration - crossfade), and the offsets increase strictly.
C8_XfadeOffsets ==
    (ret.op = "build" /\ Len(images) >= 2 /\ config.crossfade < config.duration)
    => LET x == XfadeClauses(ret.value)
       IN  /\ Len(x) = Len(images) - 1
           /\ \A N \in 1 .. Len(x) :
                /\ x[N].params.offset = N * (config.duration - config.crossfade)
                /\ x[N].ins[2] = Label("v", N)
           /\ \A N \in 1 .. Len(x) - 1 :
                x[N].params.offset < x[N + 1].params.offset

\* C8 witness: three images, duration 3, crossfade 1: offsets 2 and 4.
C8_Witness ==
    /\ ret.op = "build" /\ Len(images) = 3
    /\ config.duration = 3 /\ config.crossfade = 1
    /\ Len(XfadeClauses(ret.value)) = 2
    /\ XfadeClauses(ret.value)[1].params.offset = 2
    /\ XfadeClauses(ret.value)[2].params.offset = 4

\* n*duration - (n-1)*crossfade, plus the title duration when a title is
\* attached and enabled.
LinearEstimate(n) ==
    config.duration * n - config.crossfade * (n - 1)
    + (IF title.attached /\ title.enabled THEN title.duration ELSE 0)

\* C9 (as claimed): estimate_duration returns 0 without images and
\* otherwise exactly n*duration - (n-1)*crossfade plus the enabled title's
\* duration.
C9_EstimateIsLinear ==
    ret.op = "estimate"
    => ret.value = IF Len(images) = 0 THEN 0 ELSE LinearEstimate(Len(images))

\* C9 (amended): estimate_duration returns 0 without images and otherwise
\* max(0, n*duration - (n-1)*crossfade plus the enabled title's duration);
\* when crossfade <= duration that is the unclamped value, and one more
\* image adds duration - crossfade.
C9_EstimateIsClampedLinear ==
    ret.op = "estimate" =>
        LET n == Len(images)
        IN  /\ n = 0 => ret.value = 0
            /\ n >= 1 =>
                 /\ ret.value = IF LinearEstimate(n) < 0 THEN 0
                                ELSE LinearEstimate(n)
                 /\ config.crossfade <= config.duration
                      => ret.value = LinearEstimate(n)
            /\ (n >= 2 /\ config.crossfade <= config.duration)
                 => ret.value
                      - EstimateDuration(SubSeq(images, 1, n - 1), config, title)
                    = config.duration - config.crossfade

\* C9 witness: three images, crossfade above duration, an enabled title:
\* the clamp of line 493 decides the result.
C9_Witness ==
    /\ ret.op = "estimate" /\ Len(images) = 3
    /\ title.attached /\ title.enabled
    /\ LinearEstimate(3) < 0
    /\ ret.value = 0

\* C10: the parser leaves unchanged every snapshot field whose key is not on
\* the line; a line without time leaves time_encoded, percent and
\* eta_seconds unchanged and still updates frame and fps when they are on
\* the line.
C10_AbsentKeysLeaveFields ==
    ret.op = "parse" =>
        LET line == ret.line
            old  == ret.before
            new  == progress_info
        IN  /\ line.frame.k = "absent" => new.frame = old.frame
            /\ line.fps.k = "absent" => new.fps = old.fps
            /\ line.speed.k = "absent" => new.speed = old.speed
            /\ line.time.k = "absent" =>
                 /\ new.time_encoded = old.time_encoded
                 /\ new.percent = old.percent
                 /\ new.eta_seconds = old.eta_seconds
                 /\ line.frame.k = "num" => new.frame = line.frame.v
                 /\ line.fps.k = "num" => new.fps = line.fps.v

\* C10 witness: after a line that set time and percent, a line with frame
\* and fps and no time updated frame and fps and left percent and ETA.
C10_Witness ==
    /\ ret.op = "parse"
    /\ ret.line.time.k = "absent"
    /\ ret.line.frame = Tok("num", 120) /\ ret.line.fps = Tok("num", 30)
    /\ ret.before.frame = 0 /\ ret.before.fps = 0
    /\ ret.before.time_encoded = 4 /\ ret.before.percent = <<10, 1>>
    /\ progress_info.frame = 120 /\ progress_info.fps = 30
    /\ progress_info.percent = <<10, 1>>
    /\ progress_info.eta_seconds = ret.before.eta_seconds

\* C11 (as claimed): the percent lies in [0, 100]; a line that carries an
\* elapsed time, with a positive estimate, leaves percent at
\* min(100, 100 * elapsed / estimate); with an estimate of zero or less the
\* percent is left unchanged.
C11_PercentClampedFromElapsed ==
    /\ RatLeq(<<0, 1>>, progress_info.percent)
    /\ RatLeq(progress_info.percent, <<100, 1>>)
    /\ ret.op = "parse" =>
         /\ (ret.line.time.k = "num" /\ total_duration > 0)
              => progress_info.percent
                 = RatMin(<<100, 1>>,
                          Rat(100 * Seconds(ret.line.time.v), total_duration))
         /\ total_duration <= 0 => progress_info.percent = ret.before.percent

\* C12 (as claimed): with exactly one prepared image the builder emits no
\* cross-fade clause, and the clause of the lone image is the one whose
\* output label is [v].
C12_LoneImageStageGetsOutputTag ==
    (ret.op = "build" /\ Len(images) = 1) =>
        /\ XfadeClauses(ret.value) = << >>
        /\ \A k \in 1 .. Len(ret.value) :
             ret.value[k].kind = "zoompan" => ret.value[k].out = Tag("v")

\* C12 (amended): with exactly one prepared image the builder emits no
\* cross-fade clause; the clause of the lone image comes first and keeps
\* the label [v0]; a format clause reads [v0]; [v] is the output of the
\* last clause, which is that format clause, or the overlay clause when
\* the watermark is drawn.
C12_LoneImageFeedsFormatClause ==
    (ret.op = "build" /\ Len(images) = 1) =>
        LET f == ret.value
            drawn == ret.with_watermark /\ watermark.attached /\ watermark.enabled
        IN  /\ XfadeClauses(f) = << >>
            /\ Len(f) = IF drawn THEN 4 ELSE 2
            /\ f[1].kind = "zoompan" /\ f[1].out = Label("v", 0)
            /\ f[2].kind = "format" /\ f[2].ins = << Label("v", 0) >>
            /\ f[2].out = IF drawn THEN Tag("vout") ELSE Tag("v")
            /\ f[Len(f)].out = Tag("v")
            /\ drawn => (f[4].kind = "overlay" /\ f[4].ins[1] = Tag("vout"))
            /\ \A k \in 2 .. Len(f) : f[k].kind # "zoompan"

\* C12 witness: one image, no watermark drawn: two clauses, [0:v] to [v0]
\* and [v0] to [v].
C12_Witness ==
    /\ ret.op = "build" /\ Len(images) = 1 /\ ~ ret.with_watermark
    /\ ret.value[1].ins = << InputRef(0) >>
    /\ ret.value[1].out = Label("v", 0)
    /\ ret.value[2] = [ kind |-> "format", ins |-> << Label("v", 0) >>,
                        out |-> Tag("v"), params |-> [ none |-> TRUE ] ]
    /\ Len(ret.value) = 2

\* The names an ImageInfo can record in the runs explored.
RecordedTransitions == SampledTransitions \cup { "sparkle" }

\* C13: the builder always returns an expression; the cross-fade clause of
\* the image at index i >= 1 carries the image's recorded transition when
\* TRANSITIONS has it and fade otherwise; the transition recorded on image
\* 0 is not read: the expression is the same whatever it is.
C13_UnsupportedTransitionBecomesFade ==
    ret.op = "build" =>
        LET x == XfadeClauses(ret.value)
        IN  /\ Len(x) = IF Len(images) = 0 THEN 0 ELSE Len(images) - 1
            /\ \A i \in 1 .. Len(x) :
                 x[i].params.transition
                   = IF images[i + 1].transition \in TRANSITIONS
                     THEN images[i + 1].transition ELSE "fade"
            /\ Len(images) >= 1 =>
                 \A t \in RecordedTransitions :
                     BuildFilterComplex(
                         [ images EXCEPT ![1].transition = t ], config,
                         watermark, title, ret.with_watermark, ret.with_title)
                     = ret.value

\* C13 witness: three images that record a name TRANSITIONS does not have:
\* two cross-fade clauses, both with fade.
C13_Witness ==
    /\ ret.op = "build" /\ Len(images) = 3
    /\ images[2].transition = "sparkle" /\ images[3].transition = "sparkle"
    /\ "sparkle" \notin TRANSITIONS
    /\ Len(XfadeClauses(ret.value)) = 2
    /\ XfadeClauses(ret.value)[1].params.transition = "fade"
    /\ XfadeClauses(ret.value)[2].params.transition = "fade"

\* The output labels of an expression, in clause order.
OutputLabels(filters) == [ k \in 1 .. Len(filters) |-> filters[k].out ]

\* C14: with at least one image, whatever the watermark and the title and
\* whichever of the two the builder is asked to take into account, the last
\* clause of the expression has output label [v] and no other clause has;
\* the command generate() assembles maps [v] as its video, and [v] is the
\* output of the last clause of that command's expression and of no other.
C14_LastClauseIsTheMappedLabel ==
    /\ (ret.op = "build" /\ Len(images) >= 1) =>
         LET out == OutputLabels(ret.value)
         IN  /\ out[Len(out)] = Tag("v")
             /\ \A k \in 1 .. Len(out) - 1 : out[k] # Tag("v")
    /\ Len(images) >= 1 =>
         LET c == Command(images, config, watermark, title)
             out == OutputLabels(c.filter_complex)
         IN  /\ c.map_video = Tag("v")
             /\ out[Len(out)] = c.map_video
             /\ \A k \in 1 .. Len(out) - 1 : out[k] # c.map_video

\* C14 witness: two images, an enabled watermark and an enabled title, both
\* taken into account: six clauses, [v] on the overlay clause that comes
\* last, [vout] on the clause before the watermark's.
C14_Witness ==
    /\ ret.op = "build" /\ Len(images) = 2
    /\ ret.with_watermark /\ watermark.attached /\ watermark.enabled
    /\ ret.with_title /\ title.attached /\ title.enabled
    /\ Len(ret.value) = 6
    /\ ret.value[6].kind = "overlay" /\ ret.value[6].out = Tag("v")
    /\ ret.value[4].out = Tag("vout")

\* C15: in the command generate() assembles, every label a clause reads is
\* the output of an earlier clause, no two clauses write the same label,
\* every input a clause reads is in the command and is an image (the
\* watermark image for the watermark's clause), the audio -map option names
\* the audio input, and the inputs are the images at 0 .. n-1, the audio at
\* n and, only when the watermark input was added, the watermark at n+1.
C15_CommandReferencesAreValid ==
    cmd # NoCmd =>
        LET f == cmd.filter_complex
            n == Len(images)
            present(k) == k \in 0 .. Len(cmd.inputs) - 1
        IN  /\ n >= 1
            /\ \A k \in 1 .. Len(f) : \A r \in 1 .. Len(f[k].ins) :
                 LET l == f[k].ins[r]
                 IN  IF l.name = "input"
                     THEN /\ present(l.idx)
                          /\ cmd.inputs[l.idx + 1]
                               = IF f[k].kind = "wmscale" THEN "watermark"
                                 ELSE "image"
                     ELSE \E j \in 1 .. k - 1 : f[j].out = l
            /\ \A j \in 1 .. Len(f), k \in 1 .. Len(f) :
                 j # k => f[j].out # f[k].out
            /\ present(cmd.map_audio) /\ cmd.inputs[cmd.map_audio + 1] = "audio"
            /\ \A i \in 1 .. n : cmd.inputs[i] = "image"
            /\ cmd.map_audio = n
            /\ Len(cmd.inputs) = IF HasWatermark(watermark) THEN n + 2 ELSE n + 1
            /\ HasWatermark(watermark) => cmd.inputs[n + 2] = "watermark"
            /\ (\E k \in 1 .. Len(f) : f[k].kind = "wmscale")
                 <=> HasWatermark(watermark)

\* C15 witness: a preview call on three images with a usable watermark and
\* an enabled title: five inputs, eight clauses, the watermark's clause
\* reading input 4 and the third image's clause reading input 2.
C15_Witness ==
    /\ pc = "launch" /\ call.preview /\ Len(images) = 3
    /\ HasWatermark(watermark) /\ title.attached /\ title.enabled
    /\ cmd.inputs = << "image", "image", "image", "audio", "watermark" >>
    /\ Len(cmd.filter_complex) = 8
    /\ cmd.filter_complex[3].ins = << InputRef(2) >>
    /\ cmd.filter_complex[7].ins = << InputRef(4) >>
    /\ cmd.crf = PreviewValues.crf

\* C17 (as claimed): no call of the parser raises, whatever the line; a key
\* whose value does not parse (no match, or a match that is not a number)
\* leaves its snapshot field as it was.
C17_ParserHasNoErrorState ==
    ret.op = "parse" =>
        /\ ~ ret.raised
        /\ ret.line.frame.k \in { "nomatch", "bad" }
             => progress_info.frame = ret.before.frame
        /\ ret.line.fps.k \in { "nomatch", "bad" }
             => progress_info.fps = ret.before.fps
        /\ ret.line.speed.k \in { "nomatch", "bad" }
             => progress_info.speed = ret.before.speed

\* C16 (as claimed): with the same arguments, configuration and engine
\* behaviour, the run without callbacks returns the outcome, launches the
\* command and leaves the configuration of the run with callbacks.
C16_CallbacksDoNotAlterTheRun ==
    (pc = "done" /\ scenario.first.recorded) =>
        /\ outcome = scenario.first.outcome
        /\ cmd = scenario.first.cmd
        /\ config = scenario.first.config

\* C18: prepare_images called with an empty list raises ValueError, and the
\* generator's image list is the one it had before the call.
C18_EmptyListRaisesAndKeepsImages ==
    (ret.op = "prepare_images" /\ ret.arg = << >>) =>
        /\ ret.raised
        /\ images = ret.before

\* C18 witness: a generator with three prepared images was called with an
\* empty list: ValueError, and the three images are still there.
C18_Witness ==
    /\ ret.op = "prepare_images" /\ ret.arg = << >> /\ ret.raised
    /\ Len(ret.before) = 3
    /\ images = ret.before
    /\ images[3].index = 2

\* C19 (as claimed): every generate() call works on an image list prepared
\* from the images it found, and on a fresh snapshot: until the call has
\* read a line of engine output, every field of the snapshot is at its
\* initial zero value.
C19_FreshListAndSnapshotPerCall ==
    /\ pc \in { "preview", "assemble", "launch", "poll", "readline", "finish" }
       => /\ Len(images) = Len(call.found)
          /\ \A pos \in 1 .. Len(images) :
               /\ images[pos].path = call.found[pos]
               /\ images[pos].index = pos - 1
    /\ (pc \notin { "idle", "done" } /\ emitted = Len(stdout_pipe))
       => progress_info = InitialProgressInfo

\* C20: a call of the parser changes the ETA only when the line carries an
\* elapsed time, the estimate is positive and the snapshot's fps (after the
\* line's own fps was taken) is above zero, and the ETA is then
\* (estimate - elapsed) / (fps / target_fps), target_fps being config.fps;
\* a call that ends with the snapshot's fps at zero leaves the ETA as it was.
C20_EtaRecomputedFromElapsedAndFps ==
    ret.op = "parse" =>
        LET old == ret.before
            new == progress_info
        IN  /\ new.eta_seconds # old.eta_seconds =>
                 /\ ret.line.time.k = "num"
                 /\ total_duration > 0
                 /\ new.fps > 0
                 /\ new.eta_seconds
                      = Rat((total_duration - Seconds(ret.line.time.v))
                              * config.fps, new.fps)
            /\ new.fps = 0 => new.eta_seconds = old.eta_seconds

\* C20 witness: estimate 40, target 60 fps, a line with fps=30 and time 4 s:
\* the ETA went from 0 to (40 - 4) / (30 / 60) = 72 s; and the elapsed time
\* is what the snapshot now holds.
C20_Witness ==
    /\ ret.op = "parse" /\ total_duration = 40 /\ config.fps = 60
    /\ ret.line.fps = Tok("num", 30) /\ ret.line.time = Tok("num", <<0, 0, 4>>)
    /\ ret.before.eta_seconds = <<0, 1>>
    /\ progress_info.eta_seconds = <<72, 1>>
    /\ progress_info.time_encoded = 4

\* The frame rate the parser of the current call is given as target: the
\* preview rate in a preview call, else the rate the call was entered with.
TargetFpsOfCall == IF call.preview THEN PreviewValues.fps ELSE entry_config.fps

\* The snapshot of a fresh generator after the first k lines of the
\* engine's script went through the parser.
RECURSIVE SnapshotAfter(_)
SnapshotAfter(k) ==
    IF k = 0 THEN InitialProgressInfo
    ELSE ParseProgress(SnapshotAfter(k - 1), scenario.script.lines[k],
                       total_duration, TargetFpsOfCall).info

\* C21 (as claimed): in a call with a progress-bar callback, every line read
\* from the engine's standard output has caused exactly one invocation of
\* the callback, in reading order, with the snapshot as that line left it;
\* a call without the callback invokes nothing.
C21_EveryLineReadIsRelayed ==
    (calls = 1 /\ process.state # "none") =>
        LET read == emitted - Len(stdout_pipe)
        IN  IF call.progress_bar_callback
            THEN /\ Len(relayed) = read
                 /\ \A k \in 1 .. read : relayed[k] = SnapshotAfter(k)
            ELSE relayed = << >>

\* The paths of a prepared list, in list order.
PathsOf(imgs) == [ pos \in 1 .. Len(imgs) |-> imgs[pos].path ]

\* How many times path p occurs in the list s.
Occurrences(s, p) == Cardinality({ i \in 1 .. Len(s) : s[i] = p })

\* C22: with shuffle set (reverse set or not) the output paths are the
\* input paths in some order, each as many times as in the input; with
\* reverse set and shuffle unset the output path at index i is the input
\* path at position n-1-i; with neither set it is the input path at
\* position i.
C22_PathsOrderedByPolicy ==
    (ret.op = "prepare_images" /\ ~ ret.raised) =>
        LET in  == ret.arg
            out == PathsOf(ret.value)
            n   == Len(in)
        IN  /\ Len(out) = n
            /\ config.shuffle
                 => \A p \in Paths : Occurrences(out, p) = Occurrences(in, p)
            /\ (config.reverse /\ ~ config.shuffle)
                 => \A i \in 0 .. n - 1 : out[i + 1] = in[(n - 1 - i) + 1]
            /\ (~ config.reverse /\ ~ config.shuffle)
                 => \A i \in 0 .. n - 1 : out[i + 1] = in[i + 1]

\* C22 witness: shuffle and reverse both set, three paths: the output is a
\* rearrangement that is neither the input order nor its reverse.
C22_Witness ==
    /\ ret.op = "prepare_images" /\ ~ ret.raised
    /\ config.shuffle /\ config.reverse
    /\ ret.arg = << 1, 2, 3 >>
    /\ PathsOf(ret.value) = << 2, 1, 3 >>

\* The clauses of an expression that scale the watermark image.
WatermarkStages(filters) == SelectSeq(filters, LAMBDA c : c.kind = "wmscale")

\* C23: with titleOffset 1 when the builder is asked for the title and a
\* title is attached and enabled, and 0 otherwise, the clause of image i
\* reads input i + titleOffset and writes [v<i>]; the watermark's clause is
\* emitted exactly when the builder is asked for the watermark and one is
\* attached and enabled, and reads input n + titleOffset + 1; in the
\* command generate() assembles that is the last input.
C23_InputsShiftedByTitleOffset ==
    /\ ret.op = "build" =>
         LET f == ret.value
             n == Len(images)
             titleOffset == IF ret.with_title /\ title.attached /\ title.enabled
                            THEN 1 ELSE 0
             wm == WatermarkStages(f)
         IN  /\ \A i \in 0 .. n - 1 :
                  /\ f[i + 1].kind = "zoompan"
                  /\ f[i + 1].ins = << InputRef(i + titleOffset) >>
                  /\ f[i + 1].out = Label("v", i)
             /\ Len(wm) = IF ret.with_watermark /\ watermark.attached
                             /\ watermark.enabled THEN 1 ELSE 0
             /\ Len(wm) = 1 =>
                  wm[1].ins = << InputRef(n + titleOffset + 1) >>
    /\ (Len(images) >= 1 /\ HasWatermark(watermark)) =>
         LET c == Command(images, config, watermark, title)
         IN  WatermarkStages(c.filter_complex)[1].ins
               = << InputRef(Len(c.inputs) - 1) >>

\* C23 witness: three images, title and watermark enabled and both asked
\* for: the images read inputs 1, 2, 3 and the watermark's clause input 5.
C23_Witness ==
    /\ ret.op = "build" /\ Len(images) = 3
    /\ ret.with_title /\ title.attached /\ title.enabled
    /\ ret.with_watermark /\ watermark.attached /\ watermark.enabled
    /\ ret.value[1].ins = << InputRef(1) >> /\ ret.value[1].out = Label("v", 0)
    /\ ret.value[3].ins = << InputRef(3) >> /\ ret.value[3].out = Label("v", 2)
    /\ WatermarkStages(ret.value)[1].ins = << InputRef(5) >>

\* The length of the video a graph expression describes: the offset of its
\* last cross-fade plus one image duration; one image duration when it has
\* no cross-fade.
DescribedLength(filters, cfg) ==
    LET x == XfadeClauses(filters)
    IN  IF Len(x) = 0 THEN cfg.duration
        ELSE x[Len(x)].params.offset + cfg.duration

\* C28 (as claimed): the estimate generate() hands to the parser equals the
\* length of the video the assembled command describes,
\* n*duration - (n-1)*crossfade, with or without an attached title.
C28_EstimateIsLengthOfAssembledVideo ==
    cmd # NoCmd =>
        /\ total_duration = DescribedLength(cmd.filter_complex, config)
        /\ total_duration = Len(images) * config.duration
                            - (Len(images) - 1) * config.crossfade

\* C27: generate() clears the flag on entry.  A cancel() that came before
\* the call leaves the call uncancelled; the call made after a cancelled
\* one is not cancelled by the earlier request; and a step that changes the
\* flag is either cancel(), which sets it and changes nothing else, or the
\* entry of generate(), which clears it.
C27_FlagClearedOnEntry ==
    /\ [](/\ (scenario.cancel = "before_call" /\ calls = 1)
               => (~ stop_flag /\ outcome # Cancelled /\ ~ process.terminated)
          /\ (scenario.cancel = "during_run" /\ calls = 2)
               => (~ stop_flag /\ outcome # Cancelled /\ ~ process.terminated))
    /\ [][ /\ (stop_flag' /\ ~ stop_flag)
              => UNCHANGED << config, watermark, title, images, progress_info,
                              generate_vars, engine_vars, ret, relayed, peer >>
           /\ (~ stop_flag' /\ stop_flag)
              => (calls' = calls + 1 /\ pc' = "validate")
           /\ calls' = calls + 1 => ~ stop_flag'
         ]_vars

\* C27 witness: the first call was cancelled; the second call, made with
\* the flag still set, ran to the end and returned success.
C27_Witness ==
    /\ scenario.cancel = "during_run" /\ calls = 2
    /\ pc = "done" /\ outcome = VideoCreated
    /\ ~ stop_flag

\* C25 (as claimed): a call during whose run (between the launch of the
\* engine and the return) cancel() was issued returns the cancellation
\* outcome.
C25_CancelDuringRunAlwaysCancels ==
    (scenario.cancel = "during_run" /\ calls = 1 /\ pc = "done" /\ stop_flag)
    => outcome = Cancelled

\* C25 (amended): cancel() takes effect only at a poll of the flag: the
\* poll at the head of an iteration that finds the flag set terminates the
\* child and returns the cancellation outcome, and nothing else returns
\* that outcome; the read and the steps after the loop do not look at the
\* flag, so a call whose last poll came before the cancel() returns what
\* exit code and output file give, success included.
C25_CancelTakesEffectAtNextPoll ==
    [][ /\ (pc = "poll" /\ stop_flag /\ pc' # "poll")
           => (pc' = "done" /\ outcome' = Cancelled /\ process'.terminated)
        /\ (outcome' = Cancelled /\ outcome # Cancelled)
           => (pc = "poll" /\ stop_flag)
        /\ (pc = "finish" /\ pc' = "done")
           => outcome' = IF process.returncode # 0
                         THEN EngineError(process.stderr)
                         ELSE IF output_exists THEN VideoCreated
                         ELSE OutputMissing
        /\ (pc = "readline" /\ pc' # "readline")
           => pc' \in { "poll", "finish", "done" } /\ outcome' # Cancelled
      ]_vars

\* C25 witness: cancel() was issued during the run, after the last poll;
\* the call returned success with the flag set.
C25_Witness ==
    /\ scenario.cancel = "during_run" /\ calls = 1
    /\ pc = "done" /\ stop_flag
    /\ outcome = VideoCreated
    /\ process.state = "exited" /\ ~ process.terminated

\* The driver is blocked in readline() on an empty standard-output pipe of
\* an engine that has not exited, and the engine is blocked in a write to
\* its full standard-error pipe.
BlockedOnEachOther ==
    /\ pc = "readline" /\ stdout_pipe = << >>
    /\ process.state = "running"
    /\ NextWrite <= Len(scenario.script.writes)
    /\ scenario.script.writes[NextWrite] = "stderr"
    /\ stderr_pipe = PipeCapacity

\* C26 (as claimed): against an engine that makes finitely many writes to
\* standard output and standard error and then exits, no state is reached
\* in which the driver and the engine are blocked on each other.
C26_DriverAndEngineNeverBlockEachOther == ~ BlockedOnEachOther

\* Both activations have returned normally.
BothReturnedNormally ==
    /\ pc = "done" /\ outcome = VideoCreated
    /\ peer.pc = "done" /\ peer.outcome = VideoCreated

\* C24: when the two generators were constructed with independent copies
\* of the configuration, after both preview-mode calls have returned
\* normally each copy holds the caller's values again.
C24_IndependentCopiesAreRestored ==
    (~ scenario.shared /\ BothReturnedNormally)
        => /\ config = DefaultVideoConfig
           /\ peer.config = DefaultVideoConfig

\* C24, the interleaving on one shared object: the second activation has
\* recorded the preview values as the original, both calls have returned
\* normally, and the configuration holds the preview values, not the
\* caller's.
C24_Witness ==
    /\ scenario.shared
    /\ BothReturnedNormally
    /\ peer.original_config.saved
    /\ peer.original_config.values = SavedFields(PreviewConfig(DefaultVideoConfig))
    /\ config = PreviewConfig(DefaultVideoConfig)
    /\ config # DefaultVideoConfig

=============================================================================
